---- MODULE Spec2Model ----
(***************************************************************************)
(* RoadPlan application shell (src/src/routes/layout.tsx).                 *)
(*                                                                         *)
(* One page lifecycle: the server receives a GET request, onGet sets the   *)
(* cache directive, the layout component creates the Preference Store      *)
(* (useStore), publishes it (useContextProvider), registers the visible    *)
(* task (useVisibleTask$) and composes the shell; descendants render and   *)
(* may resolve StoreContext; the markup is delivered; the browser takes    *)
(* over; the visible task reads localStorage["theme"] and assigns it to    *)
(* store.theme.  Navigation tears the page instance down and a new         *)
(* request starts the next lifecycle.                                      *)
(***************************************************************************)
EXTENDS Integers, Sequences, FiniteSets, TLC

\* ---------------------------------------------------------------- bounds
\* Number of page lifecycles (request .. teardown) explored in one behaviour.
MaxLifecycles == 2
\* Number of times something outside this program (the user, another tab)
\* rewrites localStorage["theme"] in one behaviour.
MaxExternalWrites == 1

\* ---------------------------------------------------------------- values
\* localStorage.getItem yields null for a missing key.
Null == "<null>"
\* `const theme` of the task callback before the callback has executed.
NotRead == "<not-read>"
\* No cache directive emitted yet on the response.
NoDirective == [staleWhileRevalidate |-> -1, maxAge |-> -1]

\* type Store = { theme: "light" | "dark" | "system" }
Store == {"light", "dark", "system"}
\* Strings client storage may hold under key "theme": nothing restricts them
\* to the Store type.
StorageValues == Store \cup {"blue", Null}

\* Inputs of a request that onGet ignores.
Routes == {"/", "/roadmap"}
Bodies == {"", "x=1"}
\* Descendant components of the layout (Header, LoadingBar, Footer, the
\* routed content): two independent ones are enough to compare handles.
Descendants == {"Header", "Content"}

ServerPhases == {"Request", "HandlerDone", "ServerDefault", "Rendered"}

VARIABLES
    phase,            \* position in the page lifecycle
    lifecycle,        \* index of the current page lifecycle
    route, body,      \* the request being served
    cacheDirective,   \* what cacheControl() was last called with
    loadingBarEnabled,\* config.loadingBar.enabled (static configuration)
    shell,            \* children of <div class="app-layout">, in order
    heap,             \* store objects of this page instance, by reference
    store,            \* `const store`: reference into heap (0 = none yet)
    ctx,              \* reference bound to StoreContext (0 = unbound)
    handles,          \* reference each descendant obtained from StoreContext
    subs,             \* descendants that dereferenced store.theme in render
    notified,         \* times each descendant was scheduled for re-render
    taskScheduled,    \* the visible task is registered and has not run
    taskRuns,         \* invocations of the task callback in this lifecycle
    taskTheme,        \* `const theme` of the callback
    uncaught,         \* an exception left the task callback
    writes,           \* assignments to store.theme in this lifecycle
    localStorage,     \* value under key "theme" (Null when missing)
    storageAvailable, \* FALSE: touching localStorage throws
    externalWrites    \* external rewrites of localStorage so far

vars == <<phase, lifecycle, route, body, cacheDirective, loadingBarEnabled,
          shell, heap, store, ctx, handles, subs, notified, taskScheduled,
          taskRuns, taskTheme, uncaught, writes, localStorage,
          storageAvailable, externalWrites>>

serverVars == <<route, body, cacheDirective, shell>>
storeVars == <<heap, store, ctx, handles, subs, notified, writes>>
taskVars == <<taskScheduled, taskRuns, taskTheme, uncaught>>
envVars == <<loadingBarEnabled, localStorage, storageAvailable, externalWrites>>

\* ------------------------------------------------------- cache policy
\* A bug that keeps a cached page servable for one day instead of seven.
onGet_OneDay(r, b) ==
    [staleWhileRevalidate |-> 60 * 60 * 24, maxAge |-> 5]

\* The argument onGet passes to cacheControl; the request is not consulted.
onGet(r, b) ==
    [staleWhileRevalidate |-> 60 * 60 * 24 * 7, maxAge |-> 5]

\* ------------------------------------------------- store and context
\* A bug that creates the store with the wrong default.
InitialStore_Dark == [theme |-> "dark"]

\* The initial state handed to useStore.
InitialStore == [theme |-> "light"]

\* useStore allocates one reactive object; its reference is Len of the result.
useStore(h, init) == Append(h, init)

\* A bug that publishes a snapshot of the store instead of the store.
useContextProvider_Copy(h, ref) ==
    [heap |-> Append(h, h[ref]), ctx |-> Len(h) + 1]

\* useContextProvider binds the context id to the very object it is given.
useContextProvider(h, ref) == [heap |-> h, ctx |-> ref]

\* A bug that renders the loading bar without consulting the configuration.
ShellOf_AlwaysLoadingBar(enabled) ==
    <<"LoadingBar", "Header", "main", "Footer">>

\* The children the layout component returns, in document order.
ShellOf(enabled) ==
    (IF enabled THEN <<"LoadingBar">> ELSE <<>>) \o <<"Header", "main", "Footer">>

\* One assignment `store.theme = v` on the reactive store: the field is
\* replaced, and the components that dereferenced it in their last render
\* are scheduled for re-render when the value changes.
AssignTheme(st, ref, listeners, v) ==
    [heap     |-> [st.heap EXCEPT ![ref].theme = v],
     notified |-> [d \in Descendants |->
                     IF d \in listeners /\ st.heap[ref].theme # v
                     THEN st.notified[d] + 1 ELSE st.notified[d]],
     writes   |-> st.writes + 1]

RECURSIVE ApplyWrites(_, _, _, _)
ApplyWrites(st, ref, listeners, ws) ==
    IF ws = <<>> THEN st
    ELSE ApplyWrites(AssignTheme(st, ref, listeners, Head(ws)),
                     ref, listeners, Tail(ws))

\* ------------------------------------------------ hydration reconciler
\* A bug that keeps the server default when nothing is persisted.
VisibleTaskWrites_SkipNull(cur, theme) ==
    IF theme = Null THEN <<>> ELSE <<theme>>

\* A bug that clears the field before assigning the persisted value.
VisibleTaskWrites_ClearFirst(cur, theme) == <<Null, theme>>

\* A bug that flips the current theme when nothing is persisted.
VisibleTaskWrites_Toggle(cur, theme) ==
    IF theme = Null
    THEN <<IF cur.theme = "light" THEN "dark" ELSE "light">>
    ELSE <<theme>>

\* A change that clamps an unrecognised persisted string to the default.
VisibleTaskWrites_Validate(cur, theme) ==
    IF theme \in Store \cup {Null} THEN <<theme>> ELSE <<"light">>

\* The values the task callback assigns to store.theme, in order, given the
\* current store and the value read from localStorage: `store.theme = theme`.
VisibleTaskWrites(cur, theme) == <<theme>>

\* The store object after the callback body ran on it with `theme` read.
RunTask(cur, theme) ==
    ApplyWrites([heap |-> <<cur>>, notified |-> [d \in Descendants |-> 0],
                 writes |-> 0],
                1, {}, VisibleTaskWrites(cur, theme)).heap[1]

\* A bug that persists the default when the callback finds nothing stored.
StorageAfterTask_PersistDefault(storage, theme) ==
    IF theme = Null THEN "light" ELSE storage

\* What localStorage holds under "theme" after the callback ran on `storage`
\* and read `theme`: the callback only calls getItem, so what it held before.
StorageAfterTask(storage, theme) == storage

\* A bug that registers the callback with useTask$, which also runs it
\* while the component renders on the server.
VisibleTaskEnabled_useTask(ph, scheduled) ==
    scheduled /\ ph \in {"ServerDefault", "Hydrating"}

\* A bug that lets a registered callback that never ran fire after its page
\* instance was torn down.
VisibleTaskEnabled_AfterTeardown(ph, scheduled) ==
    \/ scheduled /\ ph = "Hydrating"
    \/ ph = "TornDown" /\ taskRuns = 0

\* useVisibleTask$: the callback runs in the browser only, once the
\* component is visible, and a task that ran is not scheduled again.
VisibleTaskEnabled(ph, scheduled) ==
    scheduled /\ ph = "Hydrating"

\* A bug that lets rendering start on a request whose handler has not run.
RenderEnabled_BeforeHandler(ph) == ph \in {"Request", "HandlerDone"}

\* The route's request handlers are awaited before the layout component
\* renders: rendering starts only on a request onGet has completed.
RenderEnabled(ph) == ph = "HandlerDone"

\* ------------------------------------------------------------- actions
FreshPage ==
    /\ cacheDirective' = NoDirective
    /\ shell' = <<>>
    /\ heap' = <<>>
    /\ store' = 0
    /\ ctx' = 0
    /\ handles' = [d \in Descendants |-> 0]
    /\ subs' = {}
    /\ notified' = [d \in Descendants |-> 0]
    /\ taskScheduled' = FALSE
    /\ taskRuns' = 0
    /\ taskTheme' = NotRead
    /\ uncaught' = FALSE
    /\ writes' = 0

Init ==
    /\ phase = "Request"
    /\ lifecycle = 1
    /\ route \in Routes
    /\ body \in Bodies
    /\ loadingBarEnabled \in BOOLEAN
    /\ localStorage \in StorageValues
    /\ storageAvailable \in BOOLEAN
    /\ externalWrites = 0
    /\ cacheDirective = NoDirective
    /\ shell = <<>>
    /\ heap = <<>>
    /\ store = 0
    /\ ctx = 0
    /\ handles = [d \in Descendants |-> 0]
    /\ subs = {}
    /\ notified = [d \in Descendants |-> 0]
    /\ taskScheduled = FALSE
    /\ taskRuns = 0
    /\ taskTheme = NotRead
    /\ uncaught = FALSE
    /\ writes = 0

\* The request handler runs: cacheControl({...}).
OnGet ==
    /\ phase = "Request"
    /\ cacheDirective' = onGet(route, body)
    /\ phase' = "HandlerDone"
    /\ UNCHANGED <<lifecycle, route, body, shell>>
    /\ UNCHANGED storeVars
    /\ UNCHANGED taskVars
    /\ UNCHANGED envVars

\* The layout component function runs on the server: useStore,
\* useContextProvider, useVisibleTask$ (registration only), the returned JSX.
Layout ==
    /\ RenderEnabled(phase)
    /\ LET h == useStore(heap, InitialStore)
           ref == Len(h)
           p == useContextProvider(h, ref)
       IN /\ heap' = p.heap
          /\ store' = ref
          /\ ctx' = p.ctx
    /\ taskScheduled' = TRUE
    /\ shell' = ShellOf(loadingBarEnabled)
    /\ phase' = "ServerDefault"
    /\ UNCHANGED <<lifecycle, route, body, cacheDirective>>
    /\ UNCHANGED <<handles, subs, notified, writes>>
    /\ UNCHANGED <<taskRuns, taskTheme, uncaught>>
    /\ UNCHANGED envVars

\* A descendant renders and resolves StoreContext; `reads` says whether its
\* render dereferences store.theme (which subscribes it to the field).
RenderDescendant(d, reads) ==
    /\ phase = "ServerDefault"
    /\ handles[d] = 0
    /\ handles' = [handles EXCEPT ![d] = ctx]
    /\ subs' = IF reads THEN subs \cup {d} ELSE subs
    /\ UNCHANGED <<phase, lifecycle, heap, store, ctx, notified, writes>>
    /\ UNCHANGED serverVars
    /\ UNCHANGED taskVars
    /\ UNCHANGED envVars

\* The rendered markup leaves the server.
Deliver ==
    /\ phase = "ServerDefault"
    /\ phase' = "Rendered"
    /\ UNCHANGED lifecycle
    /\ UNCHANGED serverVars
    /\ UNCHANGED storeVars
    /\ UNCHANGED taskVars
    /\ UNCHANGED envVars

\* The browser takes the page over; the store is resumed by reference.
Hydrate ==
    /\ phase = "Rendered"
    /\ phase' = "Hydrating"
    /\ UNCHANGED lifecycle
    /\ UNCHANGED serverVars
    /\ UNCHANGED storeVars
    /\ UNCHANGED taskVars
    /\ UNCHANGED envVars

\* The task callback: const theme = localStorage.getItem("theme");
\* store.theme = theme.  With storage unavailable the read throws and the
\* assignment is never reached; nothing in the callback catches it.
\* The callback having run is what moves the page from Hydrating to
\* Reconciled.
VisibleTask ==
    /\ VisibleTaskEnabled(phase, taskScheduled)
    /\ taskScheduled' = FALSE
    /\ taskRuns' = taskRuns + 1
    /\ phase' = IF phase = "Hydrating" THEN "Reconciled" ELSE phase
    /\ IF storageAvailable
       THEN LET theme == localStorage
                st == ApplyWrites([heap |-> heap, notified |-> notified,
                                   writes |-> writes],
                                  store, subs,
                                  VisibleTaskWrites(heap[store], theme))
            IN /\ taskTheme' = theme
               /\ heap' = st.heap
               /\ notified' = st.notified
               /\ writes' = st.writes
               /\ uncaught' = uncaught
               /\ localStorage' = StorageAfterTask(localStorage, theme)
       ELSE /\ uncaught' = TRUE
            /\ UNCHANGED <<taskTheme, heap, notified, writes, localStorage>>
    /\ UNCHANGED <<lifecycle, store, ctx, handles, subs>>
    /\ UNCHANGED serverVars
    /\ UNCHANGED <<loadingBarEnabled, storageAvailable, externalWrites>>

\* Navigation away: the page instance is torn down and a task that has not
\* run is dropped with it.
Navigate ==
    /\ phase \in {"Rendered", "Hydrating", "Reconciled"}
    /\ phase' = "TornDown"
    /\ taskScheduled' = FALSE
    /\ UNCHANGED <<lifecycle, taskRuns, taskTheme, uncaught>>
    /\ UNCHANGED serverVars
    /\ UNCHANGED storeVars
    /\ UNCHANGED envVars

\* The next page load: a new request, a new page instance.
NewRequest ==
    /\ phase = "TornDown"
    /\ lifecycle < MaxLifecycles
    /\ lifecycle' = lifecycle + 1
    /\ phase' = "Request"
    /\ route' \in Routes
    /\ body' \in Bodies
    /\ FreshPage
    /\ UNCHANGED envVars

\* Something outside this program (the user, another tab) rewrites or
\* removes the persisted key.
ExternalStorageWrite(v) ==
    /\ externalWrites < MaxExternalWrites
    /\ v # localStorage
    /\ localStorage' = v
    /\ externalWrites' = externalWrites + 1
    /\ UNCHANGED <<phase, lifecycle, loadingBarEnabled, storageAvailable>>
    /\ UNCHANGED serverVars
    /\ UNCHANGED storeVars
    /\ UNCHANGED taskVars

Next ==
    \/ OnGet
    \/ Layout
    \/ \E d \in Descendants, reads \in BOOLEAN : RenderDescendant(d, reads)
    \/ Deliver
    \/ Hydrate
    \/ VisibleTask
    \/ Navigate
    \/ NewRequest
    \/ \E v \in StorageValues : ExternalStorageWrite(v)

Spec == Init /\ [][Next]_vars

\* ------------------------------------------------------------- claims
\* The store object of the current page instance.
Theme == heap[store].theme

\* C1: once onGet has handled the request, whatever its route or body, the
\* cache directive on the response is exactly maxAge = 5 and
\* staleWhileRevalidate = 604800, and no other value is ever emitted.
C1_CacheDirectiveExact ==
    /\ cacheDirective \in
          {NoDirective, [staleWhileRevalidate |-> 604800, maxAge |-> 5]}
    /\ phase # "Request" =>
          cacheDirective = [staleWhileRevalidate |-> 604800, maxAge |-> 5]

C1_Witness ==
    /\ phase = "HandlerDone"
    /\ route = "/roadmap"
    /\ body = "x=1"
    /\ cacheDirective.maxAge = 5

\* C2: after the task ran and read no persisted value, the store's theme is
\* null; it does not remain "light".
C2_AbsentBecomesNull ==
    (taskRuns = 1 /\ taskTheme = Null) => Theme = Null

C2_Witness ==
    /\ phase = "Reconciled"
    /\ taskTheme = Null
    /\ Theme # "light"

\* C3 (as claimed): in every state of a page lifecycle, for any content of
\* client storage, the store's theme is "light", "dark", "system" or unset.
C3_ThemeInDomain ==
    store # 0 => Theme \in Store \cup {Null}

\* C4: after the task ran and read "dark", the store's theme is "dark" and
\* every component that dereferenced theme in its render was scheduled for
\* re-render exactly once (and no other component was).
C4_DarkNotifiesOnce ==
    taskTheme = "dark" =>
        /\ Theme = "dark"
        /\ \A d \in Descendants : notified[d] = IF d \in subs THEN 1 ELSE 0

C4_Witness ==
    /\ phase = "Reconciled"
    /\ taskTheme = "dark"
    /\ subs = Descendants
    /\ \A d \in Descendants : notified[d] = 1

\* C5 (as claimed): the task never runs on the server, and a page lifecycle
\* that has ended has run it exactly once.
C5_ExactlyOncePerLifecycle ==
    /\ phase \in ServerPhases => taskRuns = 0
    /\ phase = "TornDown" => taskRuns = 1

\* C5 (amended): the task runs at most once per lifecycle, never while the
\* page is on the server; it is pending throughout Hydrating, has run
\* exactly once in Reconciled, and a lifecycle torn down before it ran has
\* run it zero times and no longer holds it scheduled.
C5_AtMostOnceAfterHydration ==
    /\ taskRuns \in {0, 1}
    /\ phase \in ServerPhases => taskRuns = 0
    /\ phase = "Hydrating" => (taskRuns = 0 /\ taskScheduled)
    /\ phase = "Reconciled" => (taskRuns = 1 /\ ~taskScheduled)
    /\ phase = "TornDown" => ~taskScheduled

C5_Witness ==
    /\ phase = "Reconciled"
    /\ lifecycle = 2
    /\ taskRuns = 1
    /\ ~taskScheduled

\* C6 (as claimed): with client storage unavailable the task is skipped
\* entirely: it is not invoked, nothing fails, the theme is unchanged.
C6_SkippedWhenUnavailable ==
    ~storageAvailable =>
        /\ taskRuns = 0
        /\ ~uncaught
        /\ store # 0 => Theme = "light"

\* C7 (as claimed): when the task has completed, the store was written
\* exactly once if a persisted value existed and never if none existed.
C7_WrittenOnlyWhenPersisted ==
    (phase = "Reconciled" /\ ~uncaught) =>
        writes = IF taskTheme = Null THEN 0 ELSE 1

\* C7 (amended): the store is written at most once per lifecycle and only by
\* the task; once the task has read storage the store has been written
\* exactly once, whether a persisted value existed or not; it is not
\* written before the task runs nor when the read throws.
C7_WrittenOnceByTask ==
    /\ writes \in {0, 1}
    /\ taskRuns = 0 => writes = 0
    /\ uncaught => writes = 0
    /\ (taskRuns = 1 /\ ~uncaught) => writes = 1

C7_Witness ==
    /\ phase = "Reconciled"
    /\ taskTheme = Null
    /\ writes = 1

\* C8: on the server, before any client-side code has run, there is exactly
\* one store instance, the one bound to StoreContext, and its theme is
\* "light" whatever client storage holds.
C8_ServerDefaultLight ==
    /\ phase \in {"Request", "HandlerDone"} => (heap = <<>> /\ store = 0)
    /\ phase \in {"ServerDefault", "Rendered"} =>
          /\ Len(heap) = 1
          /\ store = 1
          /\ ctx = store
          /\ Theme = "light"

C8_Witness ==
    /\ phase = "Rendered"
    /\ localStorage = "dark"
    /\ Len(heap) = 1
    /\ Theme = "light"

\* C9: descendants that resolved StoreContext hold the same reference, the
\* one the layout holds, so a read through any handle yields what was last
\* written through another (the task's write included).
C9_SharedInstance ==
    \A d1, d2 \in Descendants :
        (handles[d1] # 0 /\ handles[d2] # 0) =>
            /\ handles[d1] = handles[d2]
            /\ handles[d1] = store
            /\ heap[handles[d2]].theme = Theme
            /\ (taskRuns = 1 /\ ~uncaught) => heap[handles[d2]].theme = taskTheme

C9_Witness ==
    /\ phase = "Reconciled"
    /\ \A d \in Descendants : handles[d] # 0
    /\ taskTheme = "system"
    /\ heap[handles["Header"]].theme = "system"
    /\ heap[handles["Content"]].theme = "system"

\* C10: running the task body a second time with the same persisted value
\* leaves the store as the first run left it, for every store the program
\* reaches and every persisted value (absent included).
C10_Idempotent ==
    /\ store # 0 =>
          LET once == RunTask(heap[store], localStorage)
          IN RunTask(once, localStorage) = once
    /\ (taskRuns = 1 /\ ~uncaught) => RunTask(heap[store], taskTheme) = heap[store]

C10_Witness ==
    /\ phase = "Reconciled"
    /\ ~uncaught
    /\ taskTheme = Null
    /\ localStorage = Null
    /\ RunTask(heap[store], taskTheme).theme = Null

\* The components present in the composed shell.
ShellParts == {shell[i] : i \in 1..Len(shell)}

\* C11: once the layout has rendered, the loading indicator is in the shell
\* exactly when config.loadingBar.enabled is true; Header, the content slot
\* and Footer are there, in that order, in both cases; and the shell is the
\* same whatever the theme is (before and after reconciliation).
C11_LoadingBarIffEnabled ==
    store # 0 =>
        /\ ("LoadingBar" \in ShellParts) <=> loadingBarEnabled
        /\ {"Header", "main", "Footer"} \subseteq ShellParts
        /\ SubSeq(shell, Len(shell) - 2, Len(shell)) = <<"Header", "main", "Footer">>
        /\ Len(shell) = IF loadingBarEnabled THEN 4 ELSE 3
        /\ loadingBarEnabled => shell[1] = "LoadingBar"

C11_Witness ==
    /\ phase = "Reconciled"
    /\ Theme = "dark"
    /\ ~loadingBarEnabled
    /\ shell = <<"Header", "main", "Footer">>

\* Rendering work has started or response body has been produced.
RenderingStarted ==
    \/ store # 0
    \/ shell # <<>>
    \/ \E d \in Descendants : handles[d] # 0
    \/ phase \in {"ServerDefault", "Rendered", "Hydrating", "Reconciled", "TornDown"}

\* C12: for every request, onGet has set the cache directive before any
\* rendering work starts and before any of the body is emitted, and no later
\* step of that request's lifecycle changes the directive.
C12_HandlerBeforeRender ==
    /\ [](RenderingStarted => cacheDirective = onGet(route, body))
    /\ [][(cacheDirective # NoDirective /\ lifecycle' = lifecycle)
            => cacheDirective' = cacheDirective]_vars
    /\ [][(~RenderingStarted /\ RenderingStarted')
            => cacheDirective = onGet(route, body)]_vars

C12_Witness ==
    /\ phase = "ServerDefault"
    /\ store # 0
    /\ handles["Header"] # 0
    /\ cacheDirective = onGet(route, body)

\* The lifecycle states a page in state ph may be in after one step: itself,
\* its successor in the chain, or torn down by navigation once delivered.
NextInLifecycle(ph) ==
    CASE ph = "ServerDefault" -> {"ServerDefault", "Rendered"}
      [] ph = "Rendered"      -> {"Rendered", "Hydrating", "TornDown"}
      [] ph = "Hydrating"     -> {"Hydrating", "Reconciled", "TornDown"}
      [] ph = "Reconciled"    -> {"Reconciled", "TornDown"}
      [] OTHER                -> {}

InLifecycle == phase \in {"ServerDefault", "Rendered", "Hydrating", "Reconciled"}

\* C13: a page lifecycle moves ServerDefault -> Rendered -> Hydrating ->
\* Reconciled one step at a time, never backwards and never skipping, and
\* leaves that chain only by navigation; the store holds "light" in every
\* state before Reconciled; and once Reconciled the theme stays what it is
\* until navigation starts a new lifecycle.
C13_LifecycleOrder ==
    /\ [](phase \in {"ServerDefault", "Rendered", "Hydrating"} => Theme = "light")
    /\ [][InLifecycle => phase' \in NextInLifecycle(phase)]_vars
    /\ [][phase' = "ServerDefault" => phase \in {"HandlerDone", "ServerDefault"}]_vars
    /\ [][phase = "Reconciled" => (heap' = heap /\ store' = store)]_vars
    /\ [][(phase = "TornDown" /\ phase' # "TornDown")
            => (phase' = "Request" /\ lifecycle' = lifecycle + 1 /\ store' = 0)]_vars

C13_Witness ==
    /\ phase = "Reconciled"
    /\ lifecycle = 2
    /\ Theme = "system"
    /\ externalWrites = 1
    /\ localStorage # "system"

\* C14: when a value is persisted under "theme", the task assigns that exact
\* string to store.theme without validating it, also when it is none of
\* "light", "dark", "system"; from then on theme equals what storage held at
\* the moment of the task's single read, whatever storage holds later.
C14_AssignedVerbatim ==
    /\ []((taskTheme \notin {NotRead, Null}) =>
            (Theme = taskTheme /\ taskTheme \in StorageValues /\ taskRuns = 1))
    /\ [][(taskRuns' = taskRuns + 1 /\ storageAvailable /\ localStorage # Null)
            => (taskTheme' = localStorage /\ heap'[store].theme = localStorage)]_vars
    /\ [][(taskTheme # NotRead /\ lifecycle' = lifecycle)
            => taskTheme' = taskTheme]_vars

C14_Witness ==
    /\ phase = "Reconciled"
    /\ taskTheme = "blue"
    /\ Theme = "blue"
    /\ localStorage = "dark"

\* The page instance was torn down before its task ran.
TornDownBeforeTask == phase = "TornDown" /\ taskRuns = 0

\* C15: when the page instance is torn down after the task was registered
\* but before it ran, the task is dropped and never invoked afterwards: the
\* store is not written, storage is not read, nobody is notified, and the
\* next page instance starts clean with storage as it was.
C15_DiscardedOnTeardown ==
    /\ [](TornDownBeforeTask =>
            /\ ~taskScheduled
            /\ writes = 0
            /\ taskTheme = NotRead
            /\ ~uncaught
            /\ Theme = "light"
            /\ \A d \in Descendants : notified[d] = 0)
    /\ [][(TornDownBeforeTask /\ lifecycle' = lifecycle)
            => (taskRuns' = 0 /\ UNCHANGED <<heap, writes, taskTheme, uncaught, notified>>)]_vars
    /\ [][(TornDownBeforeTask /\ lifecycle' # lifecycle)
            => (/\ taskRuns' = 0
                /\ writes' = 0
                /\ heap' = <<>>
                /\ ~taskScheduled'
                /\ taskTheme' = NotRead
                /\ localStorage' = localStorage)]_vars
    /\ [][(phase # "TornDown" /\ phase' = "TornDown")
            => (localStorage' = localStorage /\ heap' = heap /\ taskRuns' = taskRuns)]_vars

C15_Witness ==
    /\ TornDownBeforeTask
    /\ storageAvailable
    /\ localStorage = "dark"
    /\ subs = Descendants
    /\ Theme = "light"
    /\ taskTheme = NotRead

\* C16: no step of this program writes client storage: every step other
\* than a rewrite from outside the program leaves the value under "theme"
\* as it was, the task's step and its store write included; so as long as
\* nothing outside wrote, storage holds what it held at the task's read.
C16_StorageNeverWritten ==
    /\ [][externalWrites' = externalWrites => localStorage' = localStorage]_vars
    /\ [][heap' # heap => localStorage' = localStorage]_vars
    /\ []((externalWrites = 0 /\ taskTheme # NotRead) => localStorage = taskTheme)

C16_Witness ==
    /\ phase = "Reconciled"
    /\ lifecycle = 2
    /\ externalWrites = 0
    /\ taskTheme = Null
    /\ Theme = Null
    /\ localStorage = Null

====
